---- MODULE Spec2Model ----
(***************************************************************************)
(* YIFY-Subtitle-Downloader: the title resolution and acquisition pipeline *)
(* of src/YIFY-Subtitle-Downloader.py as a state machine.                  *)
(*                                                                         *)
(*   SpecFetch  get_html applied to a sequence of server responses         *)
(*   SpecImdb   find_best_imdb applied to a scored candidate list          *)
(*   Spec       the download job streams (_download_for_rows) started from *)
(*              the toolbar and from the context menu, over a file system  *)
(***************************************************************************)
EXTENDS Integers, Sequences, FiniteSets, TLC

VARIABLES
    fetchIn,    \* get_html: the responses the server gives to successive attempts
    fetchOut,   \* get_html: what the call did (NotCalled before the call)
    imdbIn,     \* find_best_imdb: [cands, want_year]
    imdbOut,    \* find_best_imdb: index of the returned candidate, 0 all-absent, -1 before the call
    simIn,      \* candidate_title_similarity: the two titles <<a, b>>
    simOut,     \* candidate_title_similarity: <<score(a, b), score(b, a)>>, <<-1, -1>> before the calls
    mirIn,      \* fetch_movie_page_any: [preferred, resps], the responses each mirror has ready
    mirOut,     \* fetch_movie_page_any: what the call did (NotFetched before the call)
    nameIn,     \* filename_to_title_and_year: the file name without its extension, None before Init picks it
    nameOut,    \* filename_to_title_and_year: <<title, year>> (NotParsed before the call)
    ui,         \* overwrite_var, lang_en_var, lang_ar_var, self.checked and the volumes of the run
    rows,       \* self.rows: iid -> [tt, base]
    status,     \* the status column of each row
    mapping,    \* the folder's .yify_imdb_map.json: filename -> tt ("" for no entry)
    match_cancel,     \* self.match_cancel (threading.Event)
    mt,         \* self.match_thread: locals and position of _thread_find_matches
    idt,        \* the threads of ctx_find_imdb, finish_edit and the dialog's save: locals and position
    download_cancel,  \* self.download_cancel (threading.Event)
    asked,      \* history: for each download thread, whether Cancel was clicked since it started
    wk,         \*the download threads: locals and position of each _download_for_rows
    srt,        \* subtitle files beside the media files: <<row, suffix, n>> -> content
    zips,       \* staged archives '__dl_*.zip' in the media folder, by the URL they come from
    tmpd,       \* the mkdtemp directory of each thread's extract_and_rename
    submitted   \* number of items handed to job streams and of identifier edits so far

pureVars == <<fetchIn, fetchOut, imdbIn, imdbOut, simIn, simOut, mirIn, mirOut, nameIn, nameOut>>
appVars == <<ui, rows, status, mapping, match_cancel, mt, idt, download_cancel, asked, wk, srt, zips, tmpd, submitted>>
matchVars == <<mapping, match_cancel, mt, idt>>

None == "None"

(***************************************************************************)
(* Robust HTTP: get_html                                                   *)
(***************************************************************************)
RETRIES_PER_HOST == 2

BLOCK_CODES == {403, 429, 437}

\* What one SESSION.get can produce: a status code, or 0 for a request that
\* raised (timeout, connection error).
ConnError == 0
Responses == {200, 404, 403, 429, 437, ConnError}

\* Bound: the number of responses the server has ready for one call.
MaxResp == 3

ResponseSeqs == [1..MaxResp -> Responses]

\* range(1 + RETRIES_PER_HOST): the attempts one call may make.
MaxAttemptsOffByOne == RETRIES_PER_HOST
MaxAttempts == 1 + RETRIES_PER_HOST

\* One attempt raises: the request itself raised, the status is a block code
\* (line 121-122) or raise_for_status() raises on a 4xx/5xx status (line 123).
AttemptRaises(code) ==
    \/ code = ConnError
    \/ code \in BLOCK_CODES
    \/ code >= 400

\* The loop of get_html from attempt number `attempt` (0-based) on.
\* Result: ok, the status returned or the last error raised, attempts made.
\* (A call never needs more responses than the server has ready: MaxResp is
\* at least MaxAttempts.)
NoErr == -1
NotCalled == [ok |-> FALSE, status |-> NoErr, attempts |-> 0]

RECURSIVE get_html_loop(_, _, _)
get_html_loop(resps, attempt, last_err) ==
    IF attempt >= MaxAttempts \/ attempt >= Len(resps)
    THEN [ok |-> FALSE, status |-> last_err, attempts |-> attempt]
    ELSE LET r == resps[attempt + 1] IN
         IF ~AttemptRaises(r)
         THEN [ok |-> TRUE, status |-> r, attempts |-> attempt + 1]
         ELSE IF attempt < RETRIES_PER_HOST
              THEN get_html_loop(resps, attempt + 1, r)
              ELSE [ok |-> FALSE, status |-> r, attempts |-> attempt + 1]

get_html(resps) == get_html_loop(resps, 0, NoErr)

\* Whether a get_html call returns (TRUE) or raises (FALSE), over all the
\* server behaviours.
FetchResults == {get_html(rs).ok : rs \in ResponseSeqs}

InitFetch ==
    /\ fetchIn \in ResponseSeqs
    /\ fetchOut = NotCalled

CallGetHtml ==
    /\ fetchOut = NotCalled
    /\ fetchOut' = get_html(fetchIn)
    /\ UNCHANGED fetchIn

(***************************************************************************)
(* IMDb helpers: find_best_imdb                                            *)
(***************************************************************************)
\* Similarity thresholds of the selection policy.
ExactMinSim == 60
NearMinSim == 80
GoodMinSim == 80

\* A candidate of imdb_suggest: year 0 is a missing year; sim is
\* candidate_title_similarity(c["title"], title_clean) rounded to a whole
\* number of points.
Kinds == {"movie", "tvseries", "videogame"}
Sims == {45, 59, 60, 79, 80, 95}
HintYear == 2014
CandYears == {0, HintYear - 2, HintYear - 1, HintYear}
Candidates == [year : CandYears, sim : Sims, kind : Kinds]

\* Bound: the length of the suggestion list.
MaxCands == 2

CandLists == UNION {[1..n -> Candidates] : n \in 0..MaxCands}

kind_penalty_none(kind) == 0
kind_penalty(kind) ==
    IF kind = "videogame" THEN -25
    ELSE IF kind = "tvseries" THEN -15
    ELSE 0

Abs(x) == IF x < 0 THEN -x ELSE x

\* yp of line 180-186; want_year 0 is "no hint".
year_proximity(c, want_year) ==
    IF want_year = 0 THEN 0
    ELSE IF c.year = 0 THEN -10
    ELSE LET dy == Abs(c.year - want_year) IN
         IF dy = 0 THEN 30 ELSE IF dy = 1 THEN 10 ELSE -20

\* The first component of the tuples of `scored`.
total_score(c, want_year) == c.sim + year_proximity(c, want_year) + kind_penalty(c.kind)

\* max(..., key=lambda x: x[0]) over the candidates at the indexes idx:
\* Python's max returns the first maximal element.
first_max(cands, idx, want_year) ==
    CHOOSE i \in idx :
        \A k \in idx :
            \/ total_score(cands[k], want_year) < total_score(cands[i], want_year)
            \/ (total_score(cands[k], want_year) = total_score(cands[i], want_year) /\ i <= k)

exact(cands, want_year) ==
    {i \in DOMAIN cands : cands[i].year = want_year /\ cands[i].sim >= ExactMinSim}

near_any_year(cands, want_year) ==
    {i \in DOMAIN cands : cands[i].year # 0 /\ cands[i].sim >= NearMinSim}
near(cands, want_year) ==
    {i \in DOMAIN cands :
        cands[i].year # 0 /\ Abs(cands[i].year - want_year) = 1 /\ cands[i].sim >= NearMinSim}

good(cands) == {i \in DOMAIN cands : cands[i].sim >= GoodMinSim}

\* Index of the candidate find_best_imdb returns, 0 for (None, None, None).
find_best_imdb(cands, want_year) ==
    IF Len(cands) = 0 THEN 0
    ELSE IF want_year # 0
    THEN IF exact(cands, want_year) # {}
         THEN first_max(cands, exact(cands, want_year), want_year)
         ELSE IF near(cands, want_year) # {}
              THEN first_max(cands, near(cands, want_year), want_year)
              ELSE 0
    ELSE IF good(cands) # {}
         THEN first_max(cands, good(cands), want_year)
         ELSE 0

InitImdb ==
    /\ imdbIn \in [cands : CandLists, want_year : {0, HintYear}]
    /\ imdbOut = -1

CallFindBestImdb ==
    /\ imdbOut = -1
    /\ imdbOut' = find_best_imdb(imdbIn.cands, imdbIn.want_year)
    /\ UNCHANGED imdbIn

(***************************************************************************)
(* Title similarity: normalize_title, candidate_title_similarity           *)
(***************************************************************************)
\* The characters of a title: letters (one of them upper case), a space and
\* a punctuation mark.
Chars == {"a", "x", "y", "X", " ", ":"}

\* Bound: the length of a title.
MaxTitleLen == 3

Titles == UNION {[1..n -> Chars] : n \in 0..MaxTitleLen}

\* The members of STOPWORDS that can be written with Chars.
STOPWORDS == {<<"a">>}

\* s.lower(), then the re.sub that turns punctuation into a space.
lower(c) == IF c = "X" THEN "x" ELSE c
depunct(c) == IF c = ":" THEN " " ELSE c

\* str.split(): the maximal runs of non-space characters, in order.
RECURSIVE split(_, _)
split(s, word) ==
    IF s = <<>> THEN (IF word = <<>> THEN <<>> ELSE <<word>>)
    ELSE IF Head(s) = " "
    THEN (IF word = <<>> THEN <<>> ELSE <<word>>) \o split(Tail(s), <<>>)
    ELSE split(Tail(s), Append(word, Head(s)))

\* " ".join(words)
RECURSIVE join(_)
join(ws) ==
    IF ws = <<>> THEN <<>>
    ELSE IF Len(ws) = 1 THEN ws[1]
    ELSE ws[1] \o <<" ">> \o join(Tail(ws))

normalize_title(s) ==
    LET cleaned == [k \in DOMAIN s |-> depunct(lower(s[k]))]
    IN join(SelectSeq(split(cleaned, <<>>), LAMBDA w : w \notin STOPWORDS))

\* The length of the block a[i..] = b[j..] inside a[..ahi], b[..bhi].
RECURSIVE block_len(_, _, _, _, _, _)
block_len(a, b, i, ahi, j, bhi) ==
    IF i > ahi \/ j > bhi \/ a[i] # b[j] THEN 0
    ELSE 1 + block_len(a, b, i + 1, ahi, j + 1, bhi)

\* SequenceMatcher.find_longest_match: the longest matching block of
\* a[alo..ahi] and b[blo..bhi]; of the longest ones the one that starts
\* earliest in a, and of those the one that starts earliest in b.
find_longest_match(a, b, alo, ahi, blo, bhi) ==
    LET blocks == {x \in (alo..ahi) \X (blo..bhi) : block_len(a, b, x[1], ahi, x[2], bhi) > 0}
        size(x) == block_len(a, b, x[1], ahi, x[2], bhi)
    IN IF blocks = {} THEN <<0, 0, 0>>
       ELSE LET best == CHOOSE x \in blocks :
                            \A y \in blocks :
                                \/ size(x) > size(y)
                                \/ /\ size(x) = size(y)
                                   /\ (x[1] < y[1] \/ (x[1] = y[1] /\ x[2] <= y[2]))
            IN <<best[1], best[2], size(best)>>

\* The total size of SequenceMatcher.get_matching_blocks: the longest block,
\* then the same to its left and to its right.
RECURSIVE matched(_, _, _, _, _, _)
matched(a, b, alo, ahi, blo, bhi) ==
    LET m == find_longest_match(a, b, alo, ahi, blo, bhi)
    IN IF m[3] = 0 THEN 0
       ELSE m[3] + matched(a, b, alo, m[1] - 1, blo, m[2] - 1)
                 + matched(a, b, m[1] + m[3], ahi, m[2] + m[3], bhi)

Range(f) == {f[k] : k \in DOMAIN f}

\* 0.6 * ratio + 0.4 * jacc, in thousandths of a point; ratio is
\* 2 * matched / (len(a) + len(b)) * 100 and jacc the Jaccard overlap of the
\* word sets * 100.
candidate_title_similarity(c_title, w_title) ==
    LET a == normalize_title(c_title)
        b == normalize_title(w_title)
        sa == Range(split(a, <<>>))
        sb == Range(split(b, <<>>))
        T == Len(a) + Len(b)
        U == IF sa \cup sb = {} THEN 1 ELSE Cardinality(sa \cup sb)
        I == Cardinality(sa \cap sb)
        M == matched(a, b, 1, Len(a), 1, Len(b))
    IN IF a = <<>> \/ b = <<>> THEN 0
       ELSE (120000 * M * U + 40000 * I * T) \div (T * U)

NotScored == <<-1, -1>>

InitSim ==
    /\ simIn \in Titles \X Titles
    /\ simOut = NotScored

CallSimilarity ==
    /\ simOut = NotScored
    /\ simOut' = <<candidate_title_similarity(simIn[1], simIn[2]),
                   candidate_title_similarity(simIn[2], simIn[1])>>
    /\ UNCHANGED simIn

(***************************************************************************)
(* Name cleaning: filename_to_title_and_year                               *)
(***************************************************************************)
\* A file name is a sequence of tokens: a letter that belongs to no release
\* word ("x"), a word of JUNK ("ts"), a four-digit number in 1900..2099
\* ("2019"), a separator that the trailing trim removes ("-"), a space, a
\* dot, and the two parentheses. Adjacent word tokens make one longer word.
NameTokens == {"x", "ts", "2019", "-", " ", ".", "(", ")"}
JUNK == {"ts"}
Years == {"2019"}
MaxNameLen == 4

\* \w: the tokens made of letters and digits.
IsWord(c) == c \in {"x"} \cup JUNK \cup Years

\* The names on_list_files passes: os.path.splitext(fname)[1] is a video
\* extension, so the part before it is not made of dots only.
Bases ==
    {b \in UNION {[1..n -> NameTokens] : n \in 1..MaxNameLen} : \E k \in DOMAIN b : b[k] # "."}

\* re.sub(r"\s+", " ", s)
RECURSIVE squeeze(_)
squeeze(s) ==
    IF Len(s) < 2 THEN s
    ELSE IF s[1] = " " /\ s[2] = " " THEN squeeze(Tail(s))
    ELSE <<s[1]>> \o squeeze(Tail(s))

\* str.strip()
RECURSIVE strip(_)
strip(s) ==
    IF s = <<>> THEN s
    ELSE IF s[1] = " " THEN strip(Tail(s))
    ELSE IF s[Len(s)] = " " THEN strip(SubSeq(s, 1, Len(s) - 1))
    ELSE s

collapse(s) == strip(squeeze([k \in DOMAIN s |-> IF s[k] = "." THEN " " ELSE s[k]]))

\* \b on both sides of the token at k.
bounded(s, k) ==
    /\ (k = 1 \/ ~IsWord(s[k - 1]))
    /\ (k = Len(s) \/ ~IsWord(s[k + 1]))

\* m_end: the collapsed name ends with a year in parentheses.
m_end(s) ==
    /\ Len(s) >= 3
    /\ s[Len(s) - 2] = "(" /\ s[Len(s) - 1] \in Years /\ s[Len(s)] = ")"

\* matches: the positions of the standalone years.
matches(s) == {k \in DOMAIN s : s[k] \in Years /\ bounded(s, k)}

Max(S) == CHOOSE k \in S : \A l \in S : l <= k

year(s) ==
    IF m_end(s) THEN s[Len(s) - 1]
    ELSE IF matches(s) # {} THEN s[Max(matches(s))]
    ELSE None

title_segment(s) ==
    IF m_end(s) THEN SubSeq(s, 1, Len(s) - 3)
    ELSE IF matches(s) # {} THEN SubSeq(s, 1, Max(matches(s)) - 1)
    ELSE s

\* re.sub(r"[\[\(\{][^\]\)\}]*[\]\)\}]", " ", title_segment): from the left,
\* each opener that has a closer after it goes, up to its first closer.
RECURSIVE unbracket(_)
unbracket(s) ==
    LET opens == {i \in DOMAIN s : s[i] = "(" /\ \E j \in (i + 1)..Len(s) : s[j] = ")"}
    IN IF opens = {} THEN s
       ELSE LET i == CHOOSE i \in opens : \A l \in opens : i <= l
                j == CHOOSE j \in (i + 1)..Len(s) :
                        s[j] = ")" /\ \A l \in (i + 1)..(j - 1) : s[l] # ")"
            IN SubSeq(s, 1, i - 1) \o <<" ">> \o unbracket(SubSeq(s, j + 1, Len(s)))

\* re.sub(rf"(?i)\b(?:{JUNK})\b", " ", title)
unjunk(s) == [k \in DOMAIN s |-> IF s[k] \in JUNK /\ bounded(s, k) THEN " " ELSE s[k]]

\* re.sub(r"[\s\-\u2013:\(\[\{]+$", "", title).strip()
TrailSeps == {" ", "-", "("}
RECURSIVE rtrim(_)
rtrim(s) ==
    IF s # <<>> /\ s[Len(s)] \in TrailSeps THEN rtrim(SubSeq(s, 1, Len(s) - 1))
    ELSE strip(s)

\* The part of filename_to_title_and_year after os.path.splitext.
filename_to_title_and_year(base) ==
    LET s == collapse(base)
        seg == title_segment(s)
        title == rtrim(collapse(unjunk(unbracket(seg))))
    IN <<IF title = <<>> /\ seg # <<>> THEN rtrim(collapse(seg)) ELSE title, year(s)>>

NotParsed == <<<<"?">>, None>>

InitName == nameIn \in Bases /\ nameOut = NotParsed

CallFilenameToTitleAndYear ==
    /\ nameOut = NotParsed
    /\ nameOut' = filename_to_title_and_year(nameIn)
    /\ UNCHANGED nameIn

(***************************************************************************)
(* Config, rows and the file system                                        *)
(***************************************************************************)
MIRRORS == <<"yifysubtitles.ch", "yts-subs.com">>
Mirrors == {MIRRORS[k] : k \in DOMAIN MIRRORS}
NoBase == ""

\* LANG_TOKENS: site language -> filename suffix.
LANG_TOKENS == [english |-> "en", arabic |-> "ar"]
LangTokens == DOMAIN LANG_TOKENS
Suffixes == {LANG_TOKENS[l] : l \in LangTokens}

\* The rows of the scanned folder, in the order of self.rows (sorted names).
RowOrder == <<"a.mkv", "b.mkv">>
Rows == {RowOrder[k] : k \in DOMAIN RowOrder}

\* The identifier of each row's movie; NoTT is the empty IMDb ID cell.
NoTT == ""
TT == [r \in Rows |-> IF r = RowOrder[1] THEN "tt0000001" ELSE "tt0000002"]

\* The two thread slots: self.download_thread and a context-menu thread.
Workers == {"toolbar", "ctx"}

\* Bound: the ' (n)' variants of one subtitle name the folder can hold.
MaxN == 2
\* Bound: the items submitted to job streams in one run.
MaxItems == 2

\* Content of a subtitle file: the movie whose page led to it and the number
\* of the stream that downloaded it. Absent is "no such file".
Absent == <<"absent", 0>>
Contents == Rows \X (1..MaxItems)
\* An archive ZipFile cannot read: a truncated download or a corrupt payload.
Unreadable == <<"unreadable", 0>>
NoSrt == <<"nosrt", 0>>

\* A staged archive is unreadable, has no .srt member, or is an archive whose
\* largest .srt has a content.
ZipKeys == Rows \X LangTokens

\* The path <stem>.<suffix>.srt (n = 0) or <stem> (n).<suffix>.srt.
SrtPaths == Rows \X Suffixes \X (0..MaxN)

\* movie_html before the first successful fetch_movie_page_any of a stream;
\* afterwards it is the row whose identifier the page was fetched for.
Unbound == ""

IdleWorker ==
    [pc |-> "idle", items |-> <<>>, langs |-> <<>>, i |-> 0, j |-> 0,
     overwrite |-> FALSE, toggle_button_after |-> FALSE,
     movie_html |-> Unbound, base |-> NoBase, any_saved |-> FALSE,
     canceled |-> FALSE, target |-> -1, report |-> "none", run |-> 0]

\* threading.Thread.is_alive()
is_alive(w) == wk[w].pc \notin {"idle", "done", "crashed"}

\* The volumes of the run: the temp directory and the media folder are on
\* one volume, on two volumes with different drive letters, or on two
\* volumes that os.path.splitdrive cannot tell apart (POSIX mounts, where
\* splitdrive returns '' for every path, or a volume mounted in a folder).
Volumes == {"same", "cross_letters", "cross_mounted"}

same_drive == ui.volumes # "cross_letters"
cross_volume == ui.volumes # "same"

\* langs as built by on_download_clicked and ctx_download_one.
langs_selected_arabic_first ==
    (IF ui.lang_ar THEN <<"arabic">> ELSE <<>>) \o (IF ui.lang_en THEN <<"english">> ELSE <<>>)
langs_selected ==
    (IF ui.lang_en THEN <<"english">> ELSE <<>>) \o (IF ui.lang_ar THEN <<"arabic">> ELSE <<>>)

IdleMatcher == [pc |-> "idle", items |-> <<>>, i |-> 0, canceled |-> FALSE, report |-> "none"]

\* The threads that _find_match_for_row and _refresh_title_from_tt run on
\* when started from the context menu, the inline editor or the edit dialog;
\* the program keeps no reference to them. cur is the dict of
\* _save_row_mapping, {} until load_mapping returns.
IdThreadOrder == <<"t1", "t2">>
IdThreads == {IdThreadOrder[k] : k \in DOMAIN IdThreadOrder}
NoEntries == [r \in Rows |-> NoTT]
IdleIdThread == [pc |-> "idle", iid |-> None, tt |-> NoTT, cur |-> NoEntries]

\* on_list_files for a folder whose mapping file is `saved`: a row starts
\* with the identifier of its entry, if any, and with base "".
Listed(saved) ==
    /\ rows = [r \in Rows |-> [tt |-> saved[r], base |-> NoBase]]
    /\ status = [r \in Rows |-> IF saved[r] # NoTT THEN "Matched (saved)" ELSE "Ready"]
    /\ mapping = saved
    /\ match_cancel = FALSE
    /\ mt = IdleMatcher
    /\ idt = [t \in IdThreads |-> IdleIdThread]

AppIdle ==
    /\ ui = [overwrite |-> FALSE, lang_en |-> TRUE, lang_ar |-> TRUE, checked |-> Rows,
             volumes |-> "same"]
    /\ Listed([r \in Rows |-> NoTT])
    /\ download_cancel = FALSE
    /\ asked = [w \in Workers |-> FALSE]
    /\ wk = [w \in Workers |-> IdleWorker]
    /\ srt = [p \in SrtPaths |-> Absent]
    /\ zips = [k \in ZipKeys |-> Absent]
    /\ tmpd = [w \in Workers |-> Absent]
    /\ submitted = 0

\* After a folder was listed (on_list_files checks every row) and the user
\* set the check boxes: either the mapping file had an identifier for every
\* row, and the user may have unchecked the second row; or it had none.
\* English is selected, Arabic and Overwrite are as the user left them, and no
\* subtitle is in the folder yet.
InitRun(volumes) ==
    /\ \E saved \in {TT, [r \in Rows |-> NoTT]}, checked \in {Rows, {RowOrder[1]}} :
          /\ saved # TT => checked = Rows
          /\ Listed(saved)
          /\ ui \in [overwrite : BOOLEAN, lang_en : {TRUE}, lang_ar : BOOLEAN,
                      checked : {checked}, volumes : volumes]
    /\ download_cancel = FALSE
    /\ asked = [w \in Workers |-> FALSE]
    /\ wk = [w \in Workers |-> IdleWorker]
    /\ srt = [p \in SrtPaths |-> Absent]
    /\ zips = [k \in ZipKeys |-> Absent]
    /\ tmpd = [w \in Workers |-> Absent]
    /\ submitted = 0

InitApp == InitRun({"same"})

(***************************************************************************)
(* Starting and cancelling a download                                      *)
(***************************************************************************)
NewWorker(items, langs, toggle) ==
    [IdleWorker EXCEPT !.pc = "item", !.items = items, !.langs = langs, !.i = 1,
                       !.toggle_button_after = toggle, !.run = submitted + 1]

\* work of on_download_clicked: the checked rows that have an identifier.
work == SelectSeq(RowOrder, LAMBDA r : r \in ui.checked /\ rows[r].tt # NoTT)

on_download_clicked ==
    IF is_alive("toolbar")
    THEN /\ download_cancel' = TRUE
         /\ asked' = [w \in Workers |-> asked[w] \/ is_alive(w)]
         /\ UNCHANGED <<pureVars, matchVars, ui, rows, status, wk, srt, zips, tmpd, submitted>>
    ELSE /\ ui.lang_en \/ ui.lang_ar
         /\ work # <<>>
         /\ submitted + Len(work) <= MaxItems
         /\ download_cancel' = FALSE
         /\ asked' = [asked EXCEPT !["toolbar"] = FALSE]
         /\ wk' = [wk EXCEPT !["toolbar"] = NewWorker(work, langs_selected, TRUE)]
         /\ submitted' = submitted + Len(work)
         /\ UNCHANGED <<pureVars, matchVars, ui, rows, status, srt, zips, tmpd>>

ctx_download_one(rid) ==
    /\ ~is_alive("ctx")
    /\ langs_selected # <<>>
    /\ submitted + 1 <= MaxItems
    /\ wk' = [wk EXCEPT !["ctx"] = NewWorker(<<rid>>, langs_selected, FALSE)]
    /\ asked' = [asked EXCEPT !["ctx"] = FALSE]
    /\ submitted' = submitted + 1
    /\ UNCHANGED <<pureVars, matchVars, ui, rows, status, download_cancel, srt, zips, tmpd>>

(***************************************************************************)
(* Fetch IMDb: the matching stream                                         *)
(***************************************************************************)
\* work of on_fetch_clicked: the checked rows without an identifier.
match_work == SelectSeq(RowOrder, LAMBDA r : r \in ui.checked /\ rows[r].tt = NoTT)

\* Whether find_best_imdb finds a candidate, over the suggestion lists and
\* year hints a title can meet.
MatchResults ==
    {find_best_imdb(cs, y) # 0 : cs \in CandLists, y \in {0, HintYear}}

downloadVars == <<download_cancel, asked, wk, srt, zips, tmpd>>

on_fetch_clicked ==
    IF mt.pc \notin {"idle", "done"}
    THEN /\ match_cancel' = TRUE
         /\ UNCHANGED <<pureVars, downloadVars, ui, rows, status, mapping, mt, idt, submitted>>
    ELSE /\ match_work # <<>>
         /\ submitted + Len(match_work) <= MaxItems
         /\ match_cancel' = FALSE
         /\ mt' = [IdleMatcher EXCEPT !.pc = "item", !.items = match_work, !.i = 1]
         /\ submitted' = submitted + Len(match_work)
         /\ UNCHANGED <<pureVars, downloadVars, ui, rows, status, mapping, idt>>

\* for iid, row in items: if self.match_cancel.is_set(): canceled = True; break
\* and, when the loop is left, lines 850-852.
MatchItemCheck ==
    /\ mt.pc = "item"
    /\ IF mt.i > Len(mt.items)
       THEN /\ mt' = [mt EXCEPT !.pc = "done", !.report = "Matching complete."]
            /\ UNCHANGED status
       ELSE IF match_cancel
       THEN /\ mt' = [mt EXCEPT !.pc = "done", !.canceled = TRUE, !.report = "Matching canceled."]
            /\ UNCHANGED status
       ELSE /\ mt' = [mt EXCEPT !.pc = "find"]
            /\ status' = [status EXCEPT ![mt.items[mt.i]] = "Searching IMDb"]
    /\ UNCHANGED <<pureVars, downloadVars, ui, rows, mapping, match_cancel, idt, submitted>>

\* _find_match_for_row from find_best_imdb on (lines 869-877), with the
\* load-modify-save of _save_row_mapping; save_mapping swallows a failed
\* write, and the file then stays as it was.
FindMatchForRow ==
    /\ mt.pc = "find"
    /\ LET iid == mt.items[mt.i] IN
       \E found \in MatchResults, written \in BOOLEAN :
          IF ~found
          THEN /\ ~written
               /\ status' = [status EXCEPT ![iid] = "Not found"]
               /\ UNCHANGED <<rows, mapping>>
          ELSE /\ rows' = [rows EXCEPT ![iid] = [tt |-> TT[iid], base |-> MIRRORS[1]]]
               /\ status' = [status EXCEPT ![iid] = "Matched"]
               /\ mapping' = IF written THEN [mapping EXCEPT ![iid] = TT[iid]] ELSE mapping
    /\ mt' = [mt EXCEPT !.i = @ + 1, !.pc = "item"]
    /\ UNCHANGED <<pureVars, downloadVars, ui, match_cancel, idt, submitted>>

(***************************************************************************)
(* Identifiers set from the context menu, the inline editor and the dialog *)
(***************************************************************************)
\* An IMDb ID the user types into the IMDb ID cell or the dialog.
TypedTT == "tt9999999"
NewVals == {NoTT, TypedTT}

\* A thread slot that has not run a thread yet: a run starts at most as many
\* of these threads as there are slots.
free(t) == idt[t].pc = "idle"

\* The slot the next thread takes: the first that is free.
next_slot(t) ==
    /\ free(t)
    /\ \A k, l \in DOMAIN IdThreadOrder : (IdThreadOrder[k] = t /\ l < k) => ~free(IdThreadOrder[l])

\* A thread that returned: its locals are gone.
EndedIdThread == [IdleIdThread EXCEPT !.pc = "done"]

\* ctx_find_imdb on the menu row: a row with an identifier is skipped, else
\* _find_match_for_row starts on a thread of its own.
ctx_find_imdb(rid) ==
    /\ IF rows[rid].tt # NoTT
       THEN /\ status' = [status EXCEPT ![rid] = "IMDb set (skipped)"]
            /\ UNCHANGED <<idt, submitted>>
       ELSE /\ submitted < MaxItems
            /\ \E t \in IdThreads :
                  /\ next_slot(t)
                  /\ idt' = [idt EXCEPT ![t] = [IdleIdThread EXCEPT !.pc = "find", !.iid = rid]]
            /\ submitted' = submitted + 1
            /\ UNCHANGED status
    /\ UNCHANGED <<pureVars, downloadVars, ui, rows, mapping, match_cancel, mt>>

\* finish_edit of the IMDb ID cell: the row takes the typed value and
\* _refresh_title_from_tt starts on a thread, whatever the value.
finish_edit(rowid, new_val) ==
    /\ submitted < MaxItems
    /\ submitted' = submitted + 1
    /\ rows' = [rows EXCEPT ![rowid].tt = new_val]
    /\ \E t \in IdThreads :
          /\ next_slot(t)
          /\ idt' = [idt EXCEPT ![t] =
                        [IdleIdThread EXCEPT !.pc = "refresh", !.iid = rowid, !.tt = new_val]]
    /\ UNCHANGED <<pureVars, downloadVars, ui, status, mapping, match_cancel, mt>>

\* save of the edit dialog: the row takes the typed value, and
\* _refresh_title_from_tt starts only for a value that is not empty.
save(rid, new_tt) ==
    /\ submitted < MaxItems
    /\ submitted' = submitted + 1
    /\ rows' = [rows EXCEPT ![rid].tt = new_tt]
    /\ IF new_tt # NoTT
       THEN \E t \in IdThreads :
               /\ next_slot(t)
               /\ idt' = [idt EXCEPT ![t] =
                             [IdleIdThread EXCEPT !.pc = "refresh", !.iid = rid, !.tt = new_tt]]
       ELSE UNCHANGED idt
    /\ UNCHANGED <<pureVars, downloadVars, ui, status, mapping, match_cancel, mt>>

\* _find_match_for_row on a context-menu thread, up to the call of
\* _save_row_mapping (lines 863-872).
IdFindMatch(t) ==
    /\ idt[t].pc = "find"
    /\ LET iid == idt[t].iid IN
       \E found \in MatchResults :
          IF ~found
          THEN /\ status' = [status EXCEPT ![iid] = "Not found"]
               /\ idt' = [idt EXCEPT ![t] = EndedIdThread]
               /\ UNCHANGED rows
          ELSE /\ rows' = [rows EXCEPT ![iid] = [tt |-> TT[iid], base |-> MIRRORS[1]]]
               /\ status' = [status EXCEPT ![iid] = "Matched"]
               /\ idt' = [idt EXCEPT ![t].pc = "load"]
    /\ UNCHANGED <<pureVars, downloadVars, ui, mapping, match_cancel, mt, submitted>>

\* _refresh_title_from_tt up to the call of _save_row_mapping: nothing for
\* an empty identifier; else the title is fetched, and the mapping is saved
\* only if a title came back.
RefreshTitleFromTT(t) ==
    /\ idt[t].pc = "refresh"
    /\ LET iid == idt[t].iid IN
       IF idt[t].tt = NoTT
       THEN /\ idt' = [idt EXCEPT ![t] = EndedIdThread]
            /\ UNCHANGED status
       ELSE \E title \in BOOLEAN :
               IF title
               THEN /\ status' = [status EXCEPT ![iid] = "Matched (manual)"]
                    /\ idt' = [idt EXCEPT ![t].pc = "load"]
               ELSE /\ status' = [status EXCEPT ![iid] = "ID fetch failed"]
                    /\ idt' = [idt EXCEPT ![t] = EndedIdThread]
    /\ UNCHANGED <<pureVars, downloadVars, ui, rows, mapping, match_cancel, mt, submitted>>

\* _save_row_mapping up to save_mapping: cur = load_mapping(folder) and
\* cur[fname] = the row's identifier now; nothing for a row without one.
SaveRowMappingLoad(t) ==
    /\ idt[t].pc = "load"
    /\ LET iid == idt[t].iid IN
       IF rows[iid].tt = NoTT
       THEN idt' = [idt EXCEPT ![t] = EndedIdThread]
       ELSE idt' = [idt EXCEPT ![t].pc = "save",
                                ![t].cur = [mapping EXCEPT ![iid] = rows[iid].tt]]
    /\ UNCHANGED <<pureVars, downloadVars, ui, rows, status, mapping, match_cancel, mt, submitted>>

\* save_mapping(folder, cur): the file becomes cur, or stays as it was when
\* the write fails, which save_mapping swallows.
SaveRowMappingSave(t) ==
    /\ idt[t].pc = "save"
    /\ \E written \in BOOLEAN :
          mapping' = IF written THEN idt[t].cur ELSE mapping
    /\ idt' = [idt EXCEPT ![t] = EndedIdThread]
    /\ UNCHANGED <<pureVars, downloadVars, ui, rows, status, match_cancel, mt, submitted>>

(***************************************************************************)
(* YIFY page helpers                                                       *)
(***************************************************************************)
\* bases of fetch_movie_page_any and of the subtitle-page loop: the preferred
\* base, then the mirrors other than it, in the order of MIRRORS.
bases_order_unfiltered(preferred_base) == <<preferred_base>> \o MIRRORS
bases_order(preferred_base) ==
    <<preferred_base>> \o SelectSeq(MIRRORS, LAMBDA b : b # preferred_base)

\* The first base, in the order of bases, whose get_html succeeded; NoBase if
\* every get_html raised. outs: base -> whether get_html on that base returned.
RECURSIVE first_ok_keeps_going(_, _)
first_ok_keeps_going(bases, outs) ==
    IF bases = <<>> THEN NoBase
    ELSE IF first_ok_keeps_going(Tail(bases), outs) # NoBase
    THEN first_ok_keeps_going(Tail(bases), outs)
    ELSE IF outs[Head(bases)] THEN Head(bases) ELSE NoBase

RECURSIVE first_ok(_, _)
first_ok(bases, outs) ==
    IF bases = <<>> THEN NoBase
    ELSE IF outs[Head(bases)] THEN Head(bases)
    ELSE first_ok(Tail(bases), outs)

fetch_movie_page_any(preferred_base, outs) == first_ok(bases_order(preferred_base), outs)

\* The bases the loop calls get_html on, in order: it stops at the first
\* success.
RECURSIVE visited(_, _)
visited(bases, outs) ==
    IF bases = <<>> THEN <<>>
    ELSE IF outs[Head(bases)] THEN <<Head(bases)>>
    ELSE <<Head(bases)>> \o visited(Tail(bases), outs)

\* What each mirror answers to the attempts of one get_html: a page, a block
\* code or a failed connection.
MirrorResponses == [1..MaxAttempts -> {200, 403, ConnError}]

NotFetched == [base |-> NoBase, contacted |-> <<>>, raised |-> FALSE]

InitMirror ==
    /\ mirIn \in [preferred : Mirrors, resps : [Mirrors -> MirrorResponses]]
    /\ mirOut = NotFetched

\* One call of fetch_movie_page_any: get_html on each base in turn.
CallFetchMoviePageAny ==
    /\ mirOut = NotFetched
    /\ LET outs == [m \in Mirrors |-> get_html(mirIn.resps[m]).ok]
           base == fetch_movie_page_any(mirIn.preferred, outs)
       IN mirOut' = [base |-> base,
                     contacted |-> visited(bases_order(mirIn.preferred), outs),
                     raised |-> base = NoBase]
    /\ UNCHANGED mirIn

\* os.path.exists of <stem>.<suffix>.srt
_subtitle_exists_never(row, suffix) == FALSE
_subtitle_exists(row, suffix) == srt[<<row, suffix, 0>>] # Absent

\* The first n >= 1 with no file '<root> (n)<ext>' (the while loops of safe_move).
first_free(row, suffix) ==
    CHOOSE n \in 1..MaxN :
        /\ srt[<<row, suffix, n>>] = Absent
        /\ \A m \in 1..(n - 1) : srt[<<row, suffix, m>>] # Absent

has_free(row, suffix) == \E n \in 1..MaxN : srt[<<row, suffix, n>>] = Absent

(***************************************************************************)
(* _download_for_rows, one step per blocking operation                     *)
(***************************************************************************)
Row(w) == wk[w].items[wk[w].i]
Lang(w) == wk[w].langs[wk[w].j]
Sfx(w) == LANG_TOKENS[Lang(w)]
\* The archive URL comes from the page in movie_html and the language.
ZipKey(w) == <<wk[w].movie_html, Lang(w)>>

NextLang(w) == [wk EXCEPT ![w].j = @ + 1, ![w].pc = "lang"]

\* The thread has returned (or died): its locals are gone; what it reported
\* and how far it got stay visible.
Ended(w, pc, report) ==
    [IdleWorker EXCEPT !.pc = pc, !.report = report, !.items = wk[w].items, !.i = wk[w].i,
                       !.canceled = wk[w].canceled, !.toggle_button_after = wk[w].toggle_button_after]

\* for iid, row in items: if self.download_cancel.is_set(): canceled = True; break
\* and, when the loop is left, lines 955-958.
ItemCheck(w) ==
    /\ wk[w].pc = "item"
    /\ IF wk[w].i > Len(wk[w].items)
       THEN /\ wk' = [wk EXCEPT ![w] = Ended(w, "done", IF wk[w].canceled
                                                         THEN "Download canceled."
                                                         ELSE "Download complete.")]
            /\ UNCHANGED status
       ELSE IF download_cancel
       THEN /\ wk' = [wk EXCEPT ![w] = [Ended(w, "done", "Download canceled.") EXCEPT !.canceled = TRUE]]
            /\ UNCHANGED status
       ELSE /\ wk' = [wk EXCEPT ![w].pc = "movie_page",
                                ![w].overwrite = IF wk[w].i = 1 THEN ui.overwrite ELSE @]
            /\ status' = [status EXCEPT ![Row(w)] = "Opening movie page"]
    /\ UNCHANGED <<pureVars, matchVars, ui, rows, download_cancel, asked, srt, zips, tmpd, submitted>>

\* base_pref = row.get("base") or MIRRORS[0]
base_pref(row) == IF rows[row].base # NoBase THEN rows[row].base ELSE MIRRORS[1]

\* try: movie_html, base = fetch_movie_page_any(base_pref, tt) except: ...
\* for _ in langs: self.progress_step(1); continue   -- the continue belongs
\* to that inner for, so control falls through to the language loop with
\* movie_html and base as the previous item left them.
MoviePage(w) ==
    /\ wk[w].pc = "movie_page"
    /\ \E outs \in [Mirrors -> FetchResults] :
          LET base == fetch_movie_page_any(base_pref(Row(w)), outs)
          IN IF base # NoBase
             THEN /\ wk' = [wk EXCEPT ![w].movie_html = Row(w), ![w].base = base,
                                      ![w].any_saved = FALSE, ![w].j = 1, ![w].pc = "lang"]
                  /\ UNCHANGED status
             ELSE /\ status' = [status EXCEPT ![Row(w)] = "Movie page error"]
                  /\ wk' = [wk EXCEPT ![w].any_saved = FALSE, ![w].j = 1, ![w].pc = "lang"]
    /\ UNCHANGED <<pureVars, matchVars, ui, rows, download_cancel, asked, srt, zips, tmpd, submitted>>

\* Line 953 and the step to the next item.
ItemEnd(w, canceled) ==
    /\ status' = [status EXCEPT ![Row(w)] = IF wk[w].any_saved THEN "Done" ELSE "No subs"]
    /\ wk' = [wk EXCEPT ![w].i = @ + 1, ![w].j = 0, ![w].pc = "item",
                        ![w].canceled = @ \/ canceled]

\* Lines 928-934: the cancel check, the skip of an existing subtitle, the
\* slug lookup in movie_html (an UnboundLocalError when no page was ever
\* fetched in this stream: the thread dies). find_lang_slug finds a slug of
\* the language in the page or finds none.
LangIgnoresCancel(w) == FALSE
LangSeesCancel(w) == download_cancel

LangCheck(w) ==
    /\ wk[w].pc = "lang"
    /\ IF wk[w].j > Len(wk[w].langs)
       THEN ItemEnd(w, FALSE)
       ELSE IF LangSeesCancel(w)
       THEN ItemEnd(w, TRUE)
       ELSE IF ~wk[w].overwrite /\ _subtitle_exists(Row(w), Sfx(w))
       THEN /\ wk' = NextLang(w)
            /\ UNCHANGED status
       ELSE /\ status' = [status EXCEPT ![Row(w)] = Lang(w)]
            /\ IF wk[w].movie_html = Unbound
               THEN wk' = [wk EXCEPT ![w] = Ended(w, "crashed", "none")]
               ELSE \/ wk' = NextLang(w)
                    \/ wk' = [wk EXCEPT ![w].pc = "sub_page"]
    /\ UNCHANGED <<pureVars, matchVars, ui, rows, download_cancel, asked, srt, zips, tmpd, submitted>>

\* Lines 936-943: the subtitle page over the mirrors, then find_zip_link.
SubPage(w) ==
    /\ wk[w].pc = "sub_page"
    /\ \E outs \in [Mirrors -> FetchResults], has_zip_link \in BOOLEAN :
          LET sub_base == first_ok(bases_order(wk[w].base), outs)
          IN IF sub_base = NoBase
             THEN /\ ~has_zip_link
                  /\ wk' = NextLang(w)
             ELSE IF ~has_zip_link
             THEN wk' = NextLang(w)
             ELSE wk' = [wk EXCEPT ![w].pc = "download_zip"]
    /\ UNCHANGED <<pureVars, matchVars, ui, rows, status, download_cancel, asked, srt, zips, tmpd, submitted>>

\* download_zip (lines 251-261): get_html may raise before the staged file is
\* opened; iter_content may raise after open(tmp, "wb") created it, and
\* nothing removes the file then.
DownloadZip(w) ==
    /\ wk[w].pc = "download_zip"
    /\ \E out \in FetchResults :
          IF ~out
          THEN /\ wk' = NextLang(w)
               /\ UNCHANGED zips
          ELSE \/ /\ zips' = [zips EXCEPT ![ZipKey(w)] = Unreadable]
                  /\ wk' = NextLang(w)
               \/ \E body \in {Unreadable, NoSrt, <<wk[w].movie_html, wk[w].run>>} :
                     /\ zips' = [zips EXCEPT ![ZipKey(w)] = body]
                     /\ wk' = [wk EXCEPT ![w].pc = "extract"]
    /\ UNCHANGED <<pureVars, matchVars, ui, rows, status, download_cancel, asked, srt, tmpd, submitted>>

\* finally of extract_and_rename (lines 328-332): the temp directory and the
\* staged archive are removed; then lines 947-952.
AfterExtract(w, ok) ==
    /\ tmpd' = [tmpd EXCEPT ![w] = Absent]
    /\ zips' = [zips EXCEPT ![ZipKey(w)] = Absent]
    /\ wk' = [wk EXCEPT ![w].any_saved = @ \/ ok, ![w].j = @ + 1, ![w].pc = "lang",
                        ![w].target = -1]

\* safe_move up to the choice of target (lines 269-283, 289, 298-305): the
\* name the artifact will get (n of ' (n)', 0 for the plain name), the call
\* that will move it, and whether an existing target is removed first.
safe_move_plan_never_overwrites(w) ==
    IF srt[<<Row(w), Sfx(w), 0>>] # Absent
    THEN [target |-> first_free(Row(w), Sfx(w)), by |-> "replace", remove_dest |-> FALSE]
    ELSE [target |-> 0, by |-> "replace_overwrite", remove_dest |-> FALSE]
safe_move_plan(w) ==
    LET dest == <<Row(w), Sfx(w), 0>>
        exists == srt[dest] # Absent
    IN IF ~same_drive
       THEN IF wk[w].overwrite /\ exists
            THEN [target |-> 0, by |-> "copy2", remove_dest |-> TRUE]
            ELSE IF ~wk[w].overwrite /\ exists
            THEN [target |-> first_free(Row(w), Sfx(w)), by |-> "copy2", remove_dest |-> FALSE]
            ELSE [target |-> 0, by |-> "copy2", remove_dest |-> FALSE]
       ELSE IF wk[w].overwrite
       THEN [target |-> 0, by |-> "replace_overwrite", remove_dest |-> FALSE]
       ELSE IF exists
       THEN [target |-> first_free(Row(w), Sfx(w)), by |-> "replace", remove_dest |-> FALSE]
       ELSE [target |-> 0, by |-> "replace", remove_dest |-> FALSE]

\* extract_and_rename up to the move (lines 309-324, 269-305): ZipFile raises
\* on a missing or unreadable archive, an archive without .srt gives
\* (False, "ZIP had no .srt"); otherwise the largest .srt is extracted to the
\* temp directory and safe_move chooses its target.
Extract(w) ==
    /\ wk[w].pc = "extract"
    /\ IF zips[ZipKey(w)] \in Contents
       THEN /\ srt[<<Row(w), Sfx(w), 0>>] # Absent => has_free(Row(w), Sfx(w))
            /\ LET plan == safe_move_plan(w)
               IN /\ tmpd' = [tmpd EXCEPT ![w] = zips[ZipKey(w)]]
                  /\ srt' = IF plan.remove_dest
                            THEN [srt EXCEPT ![<<Row(w), Sfx(w), 0>>] = Absent]
                            ELSE srt
                  /\ wk' = [wk EXCEPT ![w].target = plan.target, ![w].pc = plan.by]
            /\ UNCHANGED zips
       ELSE /\ AfterExtract(w, FALSE)
            /\ UNCHANGED srt
    /\ UNCHANGED <<pureVars, matchVars, ui, rows, status, download_cancel, asked, submitted>>

\* The move itself: shutil.copy2 + os.remove (line 284-287), os.replace with
\* the shutil.move fallback (line 290-296), or a bare os.replace (line 306),
\* which raises OSError when source and target are on different volumes;
\* then the finally of extract_and_rename.
SafeMoveDo(w) ==
    /\ wk[w].pc \in {"copy2", "replace_overwrite", "replace"}
    /\ LET target == <<Row(w), Sfx(w), wk[w].target>>
       IN IF wk[w].pc = "replace" /\ cross_volume
          THEN /\ AfterExtract(w, FALSE)
               /\ UNCHANGED srt
          ELSE /\ srt' = [srt EXCEPT ![target] = tmpd[w]]
               /\ AfterExtract(w, TRUE)
    /\ UNCHANGED <<pureVars, matchVars, ui, rows, status, download_cancel, asked, submitted>>

(***************************************************************************)
(* Specifications                                                          *)
(***************************************************************************)
vars == <<pureVars, appVars>>

SimIdle == simIn = None /\ simOut = NotScored
MirIdle == mirIn = None /\ mirOut = NotFetched
NameIdle == nameIn = None /\ nameOut = NotParsed
PureIdle ==
    /\ fetchIn = None /\ fetchOut = NotCalled /\ imdbIn = None /\ imdbOut = -1
    /\ SimIdle /\ MirIdle /\ NameIdle

NextFetch == CallGetHtml /\ UNCHANGED <<imdbIn, imdbOut, simIn, simOut, mirIn, mirOut, nameIn, nameOut, appVars>>
InitFetchOnly ==
    InitFetch /\ imdbIn = None /\ imdbOut = -1 /\ SimIdle /\ MirIdle /\ NameIdle /\ AppIdle
SpecFetch == InitFetchOnly /\ [][NextFetch]_vars

NextImdb == CallFindBestImdb /\ UNCHANGED <<fetchIn, fetchOut, simIn, simOut, mirIn, mirOut, nameIn, nameOut, appVars>>
InitImdbOnly ==
    InitImdb /\ fetchIn = None /\ fetchOut = NotCalled /\ SimIdle /\ MirIdle /\ NameIdle /\ AppIdle

NextSim == CallSimilarity /\ UNCHANGED <<fetchIn, fetchOut, imdbIn, imdbOut, mirIn, mirOut, nameIn, nameOut, appVars>>
InitSimOnly ==
    /\ InitSim /\ fetchIn = None /\ fetchOut = NotCalled /\ imdbIn = None /\ imdbOut = -1
    /\ MirIdle /\ NameIdle /\ AppIdle
SpecSim == InitSimOnly /\ [][NextSim]_vars

NextMirror == CallFetchMoviePageAny /\ UNCHANGED <<fetchIn, fetchOut, imdbIn, imdbOut, simIn, simOut, nameIn, nameOut, appVars>>
InitMirrorOnly ==
    /\ InitMirror /\ fetchIn = None /\ fetchOut = NotCalled /\ imdbIn = None /\ imdbOut = -1
    /\ SimIdle /\ NameIdle /\ AppIdle
SpecMirror == InitMirrorOnly /\ [][NextMirror]_vars

NextName ==
    CallFilenameToTitleAndYear
        /\ UNCHANGED <<fetchIn, fetchOut, imdbIn, imdbOut, simIn, simOut, mirIn, mirOut, appVars>>
InitNameOnly ==
    /\ InitName /\ fetchIn = None /\ fetchOut = NotCalled /\ imdbIn = None /\ imdbOut = -1
    /\ SimIdle /\ MirIdle /\ AppIdle
SpecName == InitNameOnly /\ [][NextName]_vars
SpecImdb == InitImdbOnly /\ [][NextImdb]_vars

Init == PureIdle /\ InitApp

Next ==
    \/ on_fetch_clicked
    \/ MatchItemCheck
    \/ FindMatchForRow
    \/ on_download_clicked
    \/ \E rid \in Rows : ctx_download_one(rid)
    \/ \E w \in Workers :
          \/ ItemCheck(w)
          \/ MoviePage(w)
          \/ LangCheck(w)
          \/ SubPage(w)
          \/ DownloadZip(w)
          \/ Extract(w)
          \/ SafeMoveDo(w)

Spec == Init /\ [][Next]_vars

\* Fetch IMDb ID together with the context menu's Find IMDb ID, the inline
\* editor and the edit dialog: everything that sets a row's identifier.
NextMapping ==
    \/ on_fetch_clicked
    \/ MatchItemCheck
    \/ FindMatchForRow
    \/ \E rid \in Rows : ctx_find_imdb(rid)
    \/ \E rowid \in Rows, new_val \in NewVals : finish_edit(rowid, new_val)
    \/ \E rid \in Rows, new_tt \in NewVals : save(rid, new_tt)
    \/ \E t \in IdThreads :
          \/ IdFindMatch(t)
          \/ RefreshTitleFromTT(t)
          \/ SaveRowMappingLoad(t)
          \/ SaveRowMappingSave(t)

\* A folder just listed with no saved mapping; the user may have unchecked
\* the second row.
InitMapping ==
    /\ PureIdle
    /\ ui \in [overwrite : {FALSE}, lang_en : {TRUE}, lang_ar : {TRUE},
                checked : {Rows, {RowOrder[1]}}, volumes : {"same"}]
    /\ Listed(NoEntries)
    /\ download_cancel = FALSE
    /\ asked = [w \in Workers |-> FALSE]
    /\ wk = [w \in Workers |-> IdleWorker]
    /\ srt = [p \in SrtPaths |-> Absent]
    /\ zips = [k \in ZipKeys |-> Absent]
    /\ tmpd = [w \in Workers |-> Absent]
    /\ submitted = 0
SpecMapping == InitMapping /\ [][NextMapping]_vars

\* The same streams with the temp directory and the media folder on any
\* volumes.
InitVolumes == PureIdle /\ InitRun(Volumes)
SpecVolumes == InitVolumes /\ [][Next]_vars

(***************************************************************************)
(* Claims about get_html (SpecFetch)                                       *)
(***************************************************************************)
FetchCalled == fetchOut.attempts > 0

\* C1: a get_html call makes at most 1 + RETRIES_PER_HOST = 3 attempts; on
\* the responses [blocked, blocked, success] it returns the success response
\* on the third attempt; on [blocked, blocked, blocked] it raises the failure
\* of the last attempt after exactly 3 attempts; a response with a status in
\* BLOCK_CODES is never returned as a success.
C1_GetHtmlBoundedRetry ==
    FetchCalled =>
        /\ fetchOut.attempts <= 3
        /\ (fetchIn[1] \in {403, 429, 437} /\ fetchIn[2] \in {403, 429, 437} /\ fetchIn[3] = 200)
              => (fetchOut.ok /\ fetchOut.status = 200 /\ fetchOut.attempts = 3)
        /\ (\A k \in 1..3 : fetchIn[k] \in {403, 429, 437})
              => (~fetchOut.ok /\ fetchOut.status = fetchIn[3] /\ fetchOut.attempts = 3)
        /\ fetchOut.ok => fetchOut.status \notin {403, 429, 437}

C1_Witness ==
    /\ FetchCalled
    /\ fetchIn[1] = 429 /\ fetchIn[2] = 437 /\ fetchIn[3] = 200
    /\ fetchOut.ok /\ fetchOut.attempts = 3

(***************************************************************************)
(* Claims about find_best_imdb (SpecImdb)                                  *)
(***************************************************************************)
ImdbCalled == imdbOut >= 0
Returned == imdbIn.cands[imdbOut]

\* The candidates a year hint admits: the hint's year with similarity >= 60,
\* or a year exactly 1 away with similarity >= 80.
AdmittedByHint(c, want) ==
    \/ (c.year = want /\ c.sim >= 60)
    \/ (c.year # 0 /\ (c.year - want = 1 \/ want - c.year = 1) /\ c.sim >= 80)

\* C8: with a year hint, find_best_imdb returns only a candidate of the
\* hint's year with similarity >= 60 or of a year exactly 1 away with
\* similarity >= 80; when there is no such candidate it returns all-absent,
\* whatever the similarity of the other candidates.
C8_YearHintIsStrict ==
    (ImdbCalled /\ imdbIn.want_year # 0) =>
        /\ imdbOut > 0 => AdmittedByHint(Returned, imdbIn.want_year)
        /\ (\A i \in DOMAIN imdbIn.cands : ~AdmittedByHint(imdbIn.cands[i], imdbIn.want_year))
              => imdbOut = 0

\* A candidate the year-agnostic policy would take (similarity 95, two years
\* off the hint) is the only good one, and the call returns all-absent.
C8_Witness ==
    /\ ImdbCalled /\ imdbIn.want_year = HintYear /\ imdbOut = 0
    /\ \E i \in DOMAIN imdbIn.cands :
          imdbIn.cands[i].sim = 95 /\ imdbIn.cands[i].year = HintYear - 2

Penalized(c) == c.kind \in {"videogame", "tvseries"}

Ended_pcs == {"done", "crashed"}
Acquiring_pcs == {"sub_page", "download_zip", "extract", "copy2", "replace_overwrite", "replace"}
Placing_pcs == {"copy2", "replace_overwrite", "replace"}

\* C2: a failure confined to one item or one language never terminates the
\* download stream: a stream that has ended without cancellation being
\* requested has reached every item of its list.
C2_FailureNeverEndsStream ==
    \A w \in Workers :
        (wk[w].pc \in Ended_pcs /\ ~wk[w].canceled /\ ~download_cancel)
            => wk[w].i >= Len(wk[w].items)

\* C3: when every mirror failed for an item's detail page, nothing is
\* acquired for that item: a subtitle-page fetch, archive download or
\* placement done for an item works from the page fetched for that very item,
\* never from the page of an item processed before.
C3_FailedPageAbandonsItem ==
    \A w \in Workers :
        wk[w].pc \in Acquiring_pcs => wk[w].movie_html = Row(w)

\* C4: once every per-language acquisition attempt has ended (no stream is
\* inside download_zip or extract_and_rename), no staged archive and no temp
\* extraction directory is left on disk.
C4_NothingStagedIsLeft ==
    (\A w \in Workers : wk[w].pc \notin {"download_zip", "extract"} \cup Placing_pcs)
        => /\ \A k \in ZipKeys : zips[k] = Absent
           /\ \A w \in Workers : tmpd[w] = Absent

\* C5: with overwrite=false no step removes, replaces or modifies a subtitle
\* file that exists, whatever the workers are doing.
C5_ExistingFileIsKept ==
    [][~ui.overwrite => \A p \in SrtPaths : srt[p] # Absent => srt'[p] = srt[p]]_vars

\* A stream is at the start of a language whose <stem>.<suffix>.srt exists,
\* with overwrite=false and no cancellation, and takes its step.
MeetsExisting(w) ==
    /\ wk[w].pc = "lang" /\ wk[w].j <= Len(wk[w].langs)
    /\ ~download_cancel /\ ~wk[w].overwrite
    /\ srt[<<wk[w].items[wk[w].i], LANG_TOKENS[wk[w].langs[wk[w].j]], 0>>] # Absent
    /\ wk'[w] # wk[w]

C7_CrossVolumePlacementSucceeds ==
    [][\A w \in Workers :
          (ui.volumes # "same" /\ wk[w].pc \in Placing_pcs /\ wk'[w] # wk[w]) =>
              /\ srt'[<<wk[w].items[wk[w].i], LANG_TOKENS[wk[w].langs[wk[w].j]], wk[w].target>>]
                    = tmpd[w]
              /\ tmpd'[w] = Absent]_vars

(***************************************************************************)
(* Claims about cancellation (Spec)                                        *)
(***************************************************************************)
\* C10 as stated: a stream whose cancellation signal was set while it ran
\* ends reporting that it was canceled.  (The signal of the toolbar download
\* is set only while that stream is alive and cleared only when the next one
\* starts.)
C10_CancelAlwaysReported ==
    /\ (wk["toolbar"].pc = "done" /\ download_cancel)
          => wk["toolbar"].report = "Download canceled."
    /\ (mt.pc = "done" /\ match_cancel) => mt.report = "Matching canceled."

\* C10: once the cancellation signal is set while a toolbar-started stream
\* runs, it stays set until the stream has ended; the stream starts no further
\* item and no further language; the operation in flight runs to completion
\* (its step is never replaced by the end of the stream); and the stream ends
\* reporting that it was canceled exactly when a check before an item or a
\* language found the signal set -- a signal set after the last check, during
\* the last operation of the last item, ends in the report of completion.
C10_CancelIsCooperative ==
    [][LET t == wk["toolbar"]
           t2 == wk'["toolbar"]
       IN /\ (download_cancel /\ t.pc \notin {"idle", "done", "crashed"}) => download_cancel'
          /\ (match_cancel /\ mt.pc \notin {"idle", "done"}) => match_cancel'
          /\ (download_cancel /\ t2 # t /\ t.pc = "item") => t2.pc = "done"
          /\ (download_cancel /\ t2 # t /\ t.pc = "lang") =>
                /\ t2.pc = "item" /\ t2.i = t.i + 1
                /\ srt' = srt /\ zips' = zips /\ tmpd' = tmpd
                /\ t.j <= Len(t.langs) => t2.canceled
          /\ (download_cancel /\ t2 # t /\ t.pc \in {"movie_page"} \cup Acquiring_pcs) =>
                t2.pc \in {"lang"} \cup Acquiring_pcs
          /\ (t2.pc = "done" /\ t.pc # "done" /\ t.pc # "idle") =>
                /\ t2.report = "Download canceled."
                      <=> (t.canceled \/ (download_cancel /\ t.i <= Len(t.items)))
                /\ t2.report \in {"Download canceled.", "Download complete."}
          /\ (match_cancel /\ mt' # mt /\ mt.pc = "item") => mt'.pc = "done"
          /\ (match_cancel /\ mt' # mt /\ mt.pc = "find") =>
                (mt'.pc = "item" /\ mt'.i = mt.i + 1)
          /\ (mt'.pc = "done" /\ mt.pc = "item") =>
                /\ mt'.report = "Matching canceled."
                      <=> (match_cancel /\ mt.i <= Len(mt.items))
                /\ mt'.report \in {"Matching canceled.", "Matching complete."}]_vars

\* The toolbar download was canceled during its first item: it has ended with
\* the report of cancellation and the second item was never started.
C10_Witness ==
    /\ download_cancel
    /\ wk["toolbar"].pc = "done" /\ wk["toolbar"].report = "Download canceled."
    /\ Len(wk["toolbar"].items) = 2 /\ wk["toolbar"].i = 2
    /\ status[RowOrder[2]] = "Matched (saved)"

(***************************************************************************)
(* Claims about what a download run shows (Spec)                           *)
(***************************************************************************)
InProgress == {"Opening movie page", "english", "arabic"}

\* C11: every outcome of a download run is visible; in particular, when a
\* stream has stopped (and no other stream is working), no item of its list
\* is left with an in-progress status such as 'Opening movie page' or
\* 'English'.
C11_NoLeftoverStatus ==
    \A w \in Workers :
        (/\ wk[w].pc \in Ended_pcs
         /\ \A v \in Workers \ {w} : wk[v].pc \in {"idle"} \cup Ended_pcs)
            => \A k \in 1..Len(wk[w].items) : status[wk[w].items[k]] \notin InProgress

(***************************************************************************)
(* Claims about placement with overwrite (SpecVolumes)                     *)
(***************************************************************************)
\* C12: with overwrite=true every placement puts the content just acquired
\* at <stem>.<suffix>.srt, so acquiring an artifact twice leaves that one file
\* with the latest content, and no ' (n)' variant ever exists, on one volume
\* and across volumes.
C12_OverwriteKeepsOneFile ==
    [][ui.overwrite =>
          /\ \A r \in Rows, x \in Suffixes, n \in 1..MaxN : srt'[<<r, x, n>>] = Absent
          /\ \A w \in Workers :
                (wk[w].pc \in Placing_pcs /\ wk'[w] # wk[w]) =>
                    /\ srt'[<<wk[w].items[wk[w].i], LANG_TOKENS[wk[w].langs[wk[w].j]], 0>>] = tmpd[w]
                    /\ tmpd[w] \in Contents
                    /\ wk'[w].any_saved]_vars

\* Across volumes, a.en.srt holds the content of the second acquisition and
\* there is no 'a (1).en.srt'.
C12_Witness ==
    /\ ui.overwrite /\ ui.volumes # "same"
    /\ srt[<<RowOrder[1], "en", 0>>] = <<RowOrder[1], 2>>
    /\ srt[<<RowOrder[1], "en", 1>>] = Absent
    /\ \A w \in Workers : wk[w].pc \in {"idle", "done"}

(***************************************************************************)
(* Claims about the preferred mirror (Spec)                                *)
(***************************************************************************)
\* C14: the preferred mirror of an item is the mirror that most recently
\* succeeded for it: once the detail page of an item was fetched from mirror
\* b, b is the mirror the next download of the item tries first.
C14_PreferredIsLastSuccess ==
    [][\A w \in Workers :
          (/\ wk[w].pc = "movie_page" /\ wk'[w].pc = "lang"
           /\ wk'[w].movie_html = wk[w].items[wk[w].i])
              => (IF rows'[wk[w].items[wk[w].i]].base # ""
                  THEN rows'[wk[w].items[wk[w].i]].base
                  ELSE MIRRORS[1]) = wk'[w].base]_vars

(***************************************************************************)
(* Claims about the workers (Spec)                                         *)
(***************************************************************************)
\* C17: at any time at most one downloading worker is running, whether the
\* jobs are started from the toolbar or from the context menu.
C17_OneWorkerPerClass ==
    Cardinality({w \in Workers : wk[w].pc \notin {"idle", "done", "crashed"}}) <= 1

\* Position of a row in the listing.
Pos(r) == CHOOSE k \in DOMAIN RowOrder : RowOrder[k] = r

InOrder(items) ==
    \A k, l \in DOMAIN items : k < l => Pos(items[k]) < Pos(items[l])

\* C20: within one stream the items are taken one at a time in the order of
\* submission (the order of the listing): the item index only moves to the
\* next item, and only when the previous item got its final status; within an
\* item the languages are taken in the order english, arabic, one after the
\* other.
C20_ItemsAndLanguagesInOrder ==
    [][/\ \A w \in Workers :
             LET a == wk[w]
                 b == wk'[w]
             IN /\ (b # a /\ b.pc = "item" /\ a.pc \in {"idle", "done", "crashed"}) =>
                       /\ b.i = 1 /\ InOrder(b.items)
                       /\ b.langs \in {<<"english">>, <<"arabic">>, <<"english", "arabic">>}
                /\ (b # a /\ a.pc \notin {"idle", "done", "crashed"}) =>
                       /\ b.items = a.items
                       /\ b.pc \notin Ended_pcs => b.langs = a.langs
                       /\ b.i \in {a.i, a.i + 1}
                       /\ b.i = a.i + 1 =>
                             /\ a.pc = "lang" /\ b.pc = "item"
                             /\ status'[a.items[a.i]] \in {"Done", "No subs"}
                       /\ a.pc = "movie_page" => (b.j = 1 /\ b.pc = "lang")
                       /\ (a.pc \in {"lang"} \cup Acquiring_pcs /\ b.i = a.i /\ b.pc \notin Ended_pcs)
                             => b.j \in {a.j, a.j + 1}
       /\ (mt' # mt /\ mt.pc \notin {"idle", "done"}) =>
             /\ mt'.items = mt.items
             /\ mt'.i \in {mt.i, mt.i + 1}
       /\ (mt' # mt /\ mt'.pc = "item" /\ mt.pc \in {"idle", "done"}) =>
             (mt'.i = 1 /\ InOrder(mt'.items))]_vars

\* The toolbar stream took a.mkv, finished it, and is at the second language
\* of b.mkv.
C20_Witness ==
    /\ wk["toolbar"].items = RowOrder /\ wk["toolbar"].i = 2
    /\ wk["toolbar"].langs = <<"english", "arabic">> /\ wk["toolbar"].j = 2
    /\ wk["toolbar"].pc = "sub_page"
    /\ status[RowOrder[1]] \in {"Done", "No subs"}

(***************************************************************************)
(* Claims about candidate_title_similarity (SpecSim)                       *)
(***************************************************************************)
\* C13: the similarity score is symmetric: the score of (a, b) equals the
\* score of (b, a) for all titles a and b.
C13_SimilarityIsSymmetric == simOut[1] = simOut[2]

(***************************************************************************)
(* Claims about fetch_movie_page_any (SpecMirror)                          *)
(***************************************************************************)
MirrorCalled == mirOut # NotFetched

\* Position of a mirror in MIRRORS.
MirrorPos(m) == CHOOSE k \in DOMAIN MIRRORS : MIRRORS[k] = m

\* C15: the mirror iteration starts at the preferred mirror, then visits the
\* remaining mirrors in the order of MIRRORS, and calls on no mirror twice.
C15_MirrorIterationOrder ==
    MirrorCalled =>
        LET c == mirOut.contacted
        IN /\ c # <<>> /\ c[1] = mirIn.preferred
           /\ \A k, l \in DOMAIN c : k < l => c[k] # c[l]
           /\ \A k, l \in DOMAIN c : (1 < k /\ k < l) => MirrorPos(c[k]) < MirrorPos(c[l])

\* The second mirror is preferred and fails, and the first mirror is visited
\* after it.
C15_Witness ==
    /\ MirrorCalled
    /\ mirIn.preferred = MIRRORS[2]
    /\ mirOut.contacted = <<MIRRORS[2], MIRRORS[1]>>

\* Whether the fetch on mirror m succeeds: one of the three attempts of
\* get_html gets a 200.
Serves(m) == \E n \in DOMAIN mirIn.resps[m] : mirIn.resps[m][n] = 200

\* C16: fetch_movie_page_any returns the base of the first mirror, in
\* iteration order, whose fetch succeeds and contacts no mirror after it; it
\* raises 'All mirrors failed' exactly when the fetch failed on every mirror.
C16_FirstSuccessOrAllFailed ==
    MirrorCalled =>
        LET c == mirOut.contacted
        IN /\ mirOut.raised <=> (\A m \in Mirrors : ~Serves(m))
           /\ mirOut.raised <=> mirOut.base = ""
           /\ ~mirOut.raised =>
                 /\ Serves(mirOut.base)
                 /\ c[Len(c)] = mirOut.base
                 /\ \A k \in 1..(Len(c) - 1) : ~Serves(c[k])
           /\ mirOut.raised => (\A m \in Mirrors : \E k \in DOMAIN c : c[k] = m)

\* Both mirrors serve the page, the first is preferred, and the second is
\* never contacted.
C16_Witness ==
    /\ MirrorCalled
    /\ Serves(MIRRORS[1]) /\ Serves(MIRRORS[2])
    /\ mirIn.preferred = MIRRORS[1]
    /\ mirOut.base = MIRRORS[1] /\ mirOut.contacted = <<MIRRORS[1]>>

(***************************************************************************)
(* Claims about the mapping file (SpecMapping)                             *)
(***************************************************************************)
\* A thread is inside the load-modify-save of _save_row_mapping.
InUpdate(t) == idt[t].pc = "save"

\* C18: at most one worker at a time is inside the load-modify-save of the
\* mapping file, and no write of the file drops an entry that another
\* worker has written.
C18_MappingUpdateIsExclusive ==
    /\ [](Cardinality({t \in IdThreads : InUpdate(t)}) <= 1)
    /\ [][\A r \in Rows : mapping[r] # NoTT => mapping'[r] # NoTT]_vars

\* No thread that sets or saves identifiers is running.
Quiet == mt.pc \in {"idle", "done"} /\ \A t \in IdThreads : idt[t].pc \in {"idle", "done"}

\* C19: once the work started by setting a row's identifier (automatic
\* match, inline edit or dialog) is over, the mapping file holds the row's
\* current identifier.
C19_IdentifierIsSaved ==
    Quiet => \A r \in Rows : rows[r].tt # NoTT => mapping[r] = rows[r].tt

(***************************************************************************)
(* Claims about filename_to_title_and_year (SpecName)                      *)
(***************************************************************************)
NameCalled == nameOut # NotParsed

\* C21: filename_to_title_and_year returns a non-empty title whenever the
\* title segment (the text before the detected year, or the whole collapsed
\* name when no year is found) is non-empty.
C21_TitleNonEmptyForNonEmptySegment ==
    (NameCalled /\ title_segment(collapse(nameIn)) # <<>>) => nameOut[1] # <<>>

(***************************************************************************)
(* Claims about stale cancel requests (Spec)                               *)
(***************************************************************************)
\* C22: a cancel request affects only the download stream that was running
\* when it was requested: a stream ends as canceled only if Cancel was
\* clicked after it started.
C22_CancelOnlyStopsRunningStream ==
    [][\A w \in Workers : (~wk[w].canceled /\ wk'[w].canceled) => asked[w]]_vars

(***************************************************************************)
(* Claims about identifiers set during a matching stream (SpecMapping)     *)
(***************************************************************************)
\* C23: the automatic matcher never replaces an identifier that is already
\* set on a row: no step of the matching stream changes the identifier of a
\* row that has one, such as the one the user typed after the row was
\* queued.
C23_MatcherKeepsSetIdentifier ==
    [][mt' # mt => \A r \in Rows : rows[r].tt # NoTT => rows'[r].tt = rows[r].tt]_vars

====
